---- MODULE Spec2Model ----
(***************************************************************************)
(* Model of functions/src/utils/lock.ts (Lock<T>, Locked<T>) and           *)
(* functions/src/utils/random.ts (random, randRange, choose, unique).      *)
(*                                                                         *)
(* JavaScript runs every synchronous stretch of code to completion, so an  *)
(* action is one such stretch: a call of Lock.lock() up to the promise it  *)
(* returns, the continuation of an `await`, a call of Locked.unlock().     *)
(* The continuation of an awaited promise runs in a later job than the one *)
(* that fulfilled it, so fulfilment and resumption are separate actions.   *)
(***************************************************************************)
EXTENDS Integers, Sequences, FiniteSets, TLC

VARIABLES
    value,      \* Lock.value: the protected value (a reference, never reassigned)
    contents,   \* what the object behind value holds (the Map's entries, the Set's members)
    locked,     \* Lock.locked
    waiting,    \* Lock.waiting: queue of closures, each named by its lock() call
    inner,      \* Locked.inner of the Locked object made for each lock() call
    promise,    \* state of the promise returned by each lock() call
    pc,         \* position of each caller
    cand,       \* unique.wrapped: the local `value` of each call
    ret,        \* what each call returned
    draw,       \* the last call of random.ts: its arguments, the bytes read, its result
    arrival,    \* history: lock() calls in the order they were made
    grants,     \* history: lock() calls in the order their Locked was constructed
    woken,      \* history: lock() calls whose Locked was constructed by Lock.unlock()
    misuse,     \* history: number of usage errors thrown so far
    last        \* history: the operation of the last step and its outcome

vars == <<draw, value, contents, locked, waiting, inner, promise, pc, cand, ret,
          arrival, grants, woken, misuse, last>>

history == <<arrival, grants, woken, misuse, last>>

----------------------------------------------------------------------------
(* Bounds *)

MaxCalls == 4       \* lock() calls made in SpecLock
MaxMisuse == 2      \* usage errors thrown in SpecLock

NumIncrements == 5  \* concurrent increment() calls in SpecCounter
NumUnique == 3      \* calls of one unique() wrapper in SpecUnique
DomainSize == 2     \* values the producer wrapped by unique() can yield

Calls == 1..MaxCalls
Values == {"v1", "v2"}
NoValue == <<>>        \* a local or a result that is not set; a set one is <<v>>
NoDraw == [fn |-> "none", args |-> <<>>, stage |-> "none"]

----------------------------------------------------------------------------
(* Locked<T> : lock.ts 116-158 *)

\* outcome of a call: a returned value or a thrown Error
Return(v) == [threw |-> FALSE, value |-> v]
Throw == [threw |-> TRUE]

\* constructor(value, unlocker): this.inner = { unlocked: false, value }
NewLocked(v) == [unlocked |-> FALSE, value |-> v]

LockedValue_NoCheck(g) == IF g.unlocked THEN Return("undefined") ELSE Return(g.value)

\* get value(): throws when this.inner.unlocked, else returns this.inner.value
LockedValue(g) == IF g.unlocked THEN Throw ELSE Return(g.value)

----------------------------------------------------------------------------
(* Lock<T> : lock.ts 50-107.  The operators map a state of the Lock (and   *)
(* of the Locked objects and promises it made) to the state after the call *)

LockState == [locked |-> locked, waiting |-> waiting, inner |-> inner, promise |-> promise]

\* constructor(value): locked = false, waiting = []
NewLock == [locked |-> FALSE, waiting |-> <<>>, inner |-> <<>>, promise |-> <<>>]

\* resolve(resolver): resolver(new Locked(this.value, () => this.unlock()))
LockResolve(s, c) ==
    [s EXCEPT !.inner = (c :> NewLocked(value)) @@ @,
              !.promise = (c :> "fulfilled") @@ @]

LockLock_Barging(s, c) ==
    LockResolve([s EXCEPT !.locked = TRUE], c)

\* lock(): queue the resolution when locked, else lock and resolve at once
LockLock(s, c) ==
    IF s.locked
    THEN [s EXCEPT !.waiting = Append(@, c),
                   !.promise = (c :> "pending") @@ @]
    ELSE LockResolve([s EXCEPT !.locked = TRUE], c)

LockUnlock_Lifo(s) ==
    IF s.waiting = <<>>
    THEN [s EXCEPT !.locked = FALSE]
    ELSE LockResolve([s EXCEPT !.waiting = SubSeq(@, 1, Len(@) - 1)],
                     s.waiting[Len(s.waiting)])

LockUnlock_KeepLocked(s) ==
    IF s.waiting = <<>>
    THEN s
    ELSE LockResolve([s EXCEPT !.waiting = Tail(@)], Head(s.waiting))

LockUnlock_Reopen(s) ==
    IF s.waiting = <<>>
    THEN [s EXCEPT !.locked = FALSE]
    ELSE LockResolve([s EXCEPT !.waiting = Tail(@), !.locked = FALSE],
                     Head(s.waiting))

LockUnlock_WakeAll(s) ==
    IF s.waiting = <<>>
    THEN [s EXCEPT !.locked = FALSE]
    ELSE [s EXCEPT !.waiting = <<>>,
                   !.inner = [c \in {s.waiting[i] : i \in 1..Len(s.waiting)} |->
                                NewLocked(value)] @@ @,
                   !.promise = [c \in DOMAIN @ |-> "fulfilled"]]

LockUnlock_LostWake(s) ==
    IF s.waiting = <<>>
    THEN [s EXCEPT !.locked = FALSE]
    ELSE [s EXCEPT !.waiting = Tail(@), !.locked = FALSE]

\* unlock(): waiting.shift(); full unlock on empty queue, else resolve the head
LockUnlock(s) ==
    IF s.waiting = <<>>
    THEN [s EXCEPT !.locked = FALSE]
    ELSE LockResolve([s EXCEPT !.waiting = Tail(@)], Head(s.waiting))

LockedUnlock_NoCheck(s, c) ==
    [state |-> [LockUnlock(s) EXCEPT !.inner[c] = [unlocked |-> TRUE]],
     threw |-> FALSE]

\* Locked.unlock(): this.value; this.unlocker(); this.inner = { unlocked: true }
LockedUnlock(s, c) ==
    IF LockedValue(s.inner[c]).threw
    THEN [state |-> s, threw |-> TRUE]
    ELSE [state |-> [LockUnlock(s) EXCEPT !.inner[c] = [unlocked |-> TRUE]],
          threw |-> FALSE]

SetLock(s) ==
    /\ locked' = s.locked
    /\ waiting' = s.waiting
    /\ inner' = s.inner
    /\ promise' = s.promise

\* the Locked objects a step constructed, appended to the grant history
Constructed(s) == {c \in DOMAIN s.inner : c \notin DOMAIN inner}

Granted(s) ==
    IF Constructed(s) = {} THEN grants
    ELSE Append(grants, CHOOSE c \in Constructed(s) : TRUE)

----------------------------------------------------------------------------
(* Callers of one Lock: each makes one lock() call, awaits the Locked and  *)
(* then uses it in any way, misuse included.                               *)

InitLock ==
    /\ value \in Values
    /\ locked = NewLock.locked
    /\ waiting = NewLock.waiting
    /\ inner = NewLock.inner
    /\ promise = NewLock.promise
    /\ contents = {}
    /\ pc = [c \in Calls |-> "start"]
    /\ cand = [c \in Calls |-> NoValue]
    /\ ret = [c \in Calls |-> NoValue]
    /\ arrival = <<>>
    /\ grants = <<>>
    /\ woken = {}
    /\ misuse = 0
    /\ last = [op |-> "new", call |-> 0, out |-> Return("none")]
    /\ draw = NoDraw

\* const lock = await this.lock() : the call itself
CallLock ==
    /\ Len(arrival) < MaxCalls
    /\ LET c == Len(arrival) + 1
           s == LockLock(LockState, c)
       IN  /\ SetLock(s)
           /\ grants' = Granted(s)
           /\ arrival' = Append(arrival, c)
           /\ pc' = [pc EXCEPT ![c] = "await"]
           /\ last' = [op |-> "lock", call |-> c, out |-> Return("promise")]
    /\ UNCHANGED <<draw, value, contents, cand, ret, woken, misuse>>

\* the continuation of the await: the caller now has the Locked
Resume(c) ==
    /\ pc[c] = "await"
    /\ c \in DOMAIN promise
    /\ promise[c] = "fulfilled"
    /\ pc' = [pc EXCEPT ![c] = "has"]
    /\ last' = [op |-> "resume", call |-> c, out |-> Return("locked")]
    /\ UNCHANGED <<draw, value, contents, locked, waiting, inner, promise, cand, ret,
                   arrival, grants, woken, misuse>>

\* lock.unlock()
Unlock(c) ==
    /\ pc[c] = "has"
    /\ LET r == LockedUnlock(LockState, c)
       IN  /\ r.threw => misuse < MaxMisuse
           /\ SetLock(r.state)
           /\ grants' = Granted(r.state)
           /\ woken' = woken \cup Constructed(r.state)
           /\ misuse' = IF r.threw THEN misuse + 1 ELSE misuse
           /\ last' = [op |-> "unlock", call |-> c,
                       out |-> IF r.threw THEN Throw ELSE Return("undefined")]
    /\ UNCHANGED <<draw, value, contents, pc, cand, ret, arrival>>

\* lock.value
Value(c) ==
    /\ pc[c] = "has"
    /\ LET r == LockedValue(inner[c])
       IN  /\ r.threw => misuse < MaxMisuse
           /\ misuse' = IF r.threw THEN misuse + 1 ELSE misuse
           /\ last' = [op |-> "value", call |-> c, out |-> r]
    /\ UNCHANGED <<draw, value, contents, locked, waiting, inner, promise, pc, cand, ret,
                   arrival, grants, woken>>

NextLock ==
    \/ CallLock
    \/ \E c \in Calls : Resume(c)
    \/ \E c \in Calls : Unlock(c)
    \/ \E c \in Calls : Value(c)

SpecLock == InitLock /\ [][NextLock]_vars

\* the release of a Locked that is still live: unlock() called on it for the first time
Release(c) == Unlock(c) /\ ~inner[c].unlocked

\* The same callers when the event loop runs every continuation that is ready
\* and every caller that was given a Locked releases it at some time.
SpecLockFair ==
    /\ InitLock
    /\ [][NextLock]_vars
    /\ \A c \in Calls : WF_vars(Resume(c)) /\ WF_vars(Release(c))

----------------------------------------------------------------------------
(* ThreadSafeCounter<T> of the Lock documentation : lock.ts 18-43.         *)
(* NumIncrements concurrent calls increment(K) on one counter.             *)

Incrementers == 1..NumIncrements
K == "K"

\* lock.value.get(name) ?? 0
MapGet(m, k) == IF k \in DOMAIN m THEN m[k] ELSE 0

\* lock.value.set(name, cnt)
MapSet(m, k, v) == (k :> v) @@ m

CounterIncrement_NoAdd(m, k) ==
    LET cur == MapGet(m, k)
        cnt == cur
    IN  [map |-> MapSet(m, k, cnt), cnt |-> cnt]

\* cur = get(name) ?? 0; cnt = cur + 1; set(name, cnt); ...; return cnt
CounterIncrement(m, k) ==
    LET cur == MapGet(m, k)
        cnt == cur + 1
    IN  [map |-> MapSet(m, k, cnt), cnt |-> cnt]

\* constructor(): this.counter = new Lock(new Map())
InitCounter ==
    /\ value = "map"
    /\ contents = <<>>
    /\ locked = NewLock.locked
    /\ waiting = NewLock.waiting
    /\ inner = NewLock.inner
    /\ promise = NewLock.promise
    /\ pc = [p \in Incrementers |-> "start"]
    /\ cand = [p \in Incrementers |-> NoValue]
    /\ ret = [p \in Incrementers |-> NoValue]
    /\ arrival = <<>>
    /\ grants = <<>>
    /\ woken = {}
    /\ misuse = 0
    /\ last = [op |-> "new", call |-> 0, out |-> Return("none")]
    /\ draw = NoDraw

\* increment(value) up to its await: this.counter.lock()
IncrementCall(p) ==
    /\ pc[p] = "start"
    /\ SetLock(LockLock(LockState, p))
    /\ pc' = [pc EXCEPT ![p] = "await"]
    /\ UNCHANGED <<draw, value, contents, cand, ret, history>>

\* increment(value) after its await: read, add one, write, unlock, return
IncrementBody(p) ==
    /\ pc[p] = "await"
    /\ p \in DOMAIN promise
    /\ promise[p] = "fulfilled"
    /\ ~LockedValue(inner[p]).threw
    /\ LET r == CounterIncrement(contents, K)
           u == LockedUnlock(LockState, p)
       IN  /\ contents' = r.map
           /\ SetLock(u.state)
           /\ ret' = [ret EXCEPT ![p] = <<r.cnt>>]
           /\ woken' = woken \cup {c \in DOMAIN u.state.inner : c \notin DOMAIN inner}
           /\ pc' = [pc EXCEPT ![p] = IF u.threw THEN "threw" ELSE "done"]
    /\ UNCHANGED <<draw, value, cand, arrival, grants, misuse, last>>

NextCounter ==
    \/ \E p \in Incrementers : IncrementCall(p)
    \/ \E p \in Incrementers : IncrementBody(p)

SpecCounter == InitCounter /\ [][NextCounter]_vars

----------------------------------------------------------------------------
(* unique(func, ...args) : random.ts 124-145.  NumUnique calls of one      *)
(* wrapped(); func yields any value of Domain, or fails.                   *)

Wrappers == 1..NumUnique
Domain == 1..DomainSize

WrappedCheck_NoAdd(seen, v) ==
    IF v \notin seen
    THEN [seen |-> seen, returns |-> TRUE]
    ELSE [seen |-> seen, returns |-> FALSE]

WrappedCheck_NoCheck(seen, v) == [seen |-> seen \cup {v}, returns |-> TRUE]

WrappedCheck_AddFirst(seen, v) == [seen |-> seen \cup {v}, returns |-> FALSE]

WrappedCheck_Inverted(seen, v) ==
    IF v \in seen
    THEN [seen |-> seen \cup {v}, returns |-> TRUE]
    ELSE [seen |-> seen, returns |-> FALSE]

\* if (! lock.value.has(value)) { lock.value.add(value); ...; return value }
WrappedCheck(seen, v) ==
    IF v \notin seen
    THEN [seen |-> seen \cup {v}, returns |-> TRUE]
    ELSE [seen |-> seen, returns |-> FALSE]

WrappedIteration_NoUnlockOnRetry(s, seen, p, v) ==
    IF WrappedCheck(seen, v).returns
    THEN [seen |-> WrappedCheck(seen, v).seen, state |-> LockedUnlock(s, p).state,
          returns |-> TRUE, threw |-> LockedUnlock(s, p).threw]
    ELSE [seen |-> seen, state |-> s, returns |-> FALSE, threw |-> FALSE]

WrappedIteration_NoUnlockOnReturn(s, seen, p, v) ==
    IF WrappedCheck(seen, v).returns
    THEN [seen |-> WrappedCheck(seen, v).seen, state |-> s,
          returns |-> TRUE, threw |-> FALSE]
    ELSE [seen |-> seen, state |-> LockedUnlock(s, p).state,
          returns |-> FALSE, threw |-> LockedUnlock(s, p).threw]

\* one pass of the loop once the Locked is held: the membership test and the
\* insertion, then lock.unlock() on the returning path and on the retrying one
WrappedIteration(s, seen, p, v) ==
    [seen |-> WrappedCheck(seen, v).seen,
     state |-> LockedUnlock(s, p).state,
     returns |-> WrappedCheck(seen, v).returns,
     threw |-> LockedUnlock(s, p).threw]

\* const values = new Lock(new Set())
InitUnique ==
    /\ value = "set"
    /\ contents = {}
    /\ locked = NewLock.locked
    /\ waiting = NewLock.waiting
    /\ inner = NewLock.inner
    /\ promise = NewLock.promise
    /\ pc = [p \in Wrappers |-> "start"]
    /\ cand = [p \in Wrappers |-> NoValue]
    /\ ret = [p \in Wrappers |-> NoValue]
    /\ arrival = <<>>
    /\ grants = <<>>
    /\ woken = {}
    /\ misuse = 0
    /\ last = [op |-> "new", call |-> 0, out |-> Return("none")]
    /\ draw = NoDraw

\* wrapped() is called: the first func(...args) is started
WrappedCall(p) ==
    /\ pc[p] = "start"
    /\ pc' = [pc EXCEPT ![p] = "func"]
    /\ UNCHANGED <<draw, value, contents, locked, waiting, inner, promise, cand, ret, history>>

\* const value = await func(...args) resumes with v; values.lock() is called
WrappedProduced(p, v) ==
    /\ pc[p] = "func"
    /\ cand' = [cand EXCEPT ![p] = <<v>>]
    /\ SetLock(LockLock(LockState, p))
    /\ pc' = [pc EXCEPT ![p] = "await"]
    /\ UNCHANGED <<draw, value, contents, ret, history>>

\* await func(...args) rejects: wrapped() rejects with the same error
WrappedFailed(p) ==
    /\ pc[p] = "func"
    /\ pc' = [pc EXCEPT ![p] = "threw"]
    /\ UNCHANGED <<draw, value, contents, locked, waiting, inner, promise, cand, ret, history>>

\* await values.lock() resumes: the membership test, then return or loop
WrappedLocked(p) ==
    /\ pc[p] = "await"
    /\ p \in DOMAIN promise
    /\ promise[p] = "fulfilled"
    /\ ~LockedValue(inner[p]).threw
    /\ LET r == WrappedIteration(LockState, contents, p, cand[p][1])
       IN  /\ contents' = r.seen
           /\ SetLock(r.state)
           /\ ret' = [ret EXCEPT ![p] = IF r.returns /\ ~r.threw THEN cand[p] ELSE @]
           /\ pc' = [pc EXCEPT ![p] = IF r.threw THEN "threw"
                                      ELSE IF r.returns THEN "done" ELSE "func"]
    /\ UNCHANGED <<draw, value, cand, history>>

NextUnique ==
    \/ \E p \in Wrappers : WrappedCall(p)
    \/ \E p \in Wrappers, v \in Domain : WrappedProduced(p, v)
    \/ \E p \in Wrappers : WrappedFailed(p)
    \/ \E p \in Wrappers : WrappedLocked(p)

SpecUnique == InitUnique /\ [][NextUnique]_vars

\* the calls when func never rejects
NextProducing ==
    \/ \E p \in Wrappers : WrappedCall(p)
    \/ \E p \in Wrappers, v \in Domain : WrappedProduced(p, v)
    \/ \E p \in Wrappers : WrappedLocked(p)

\* The calls when func never rejects, the event loop runs every continuation
\* that is ready, and func, called again and again, yields every value of its
\* domain again and again.
SpecUniqueFair ==
    /\ InitUnique
    /\ [][NextProducing]_vars
    /\ \A p \in Wrappers :
         /\ WF_vars(WrappedLocked(p))
         /\ WF_vars(\E v \in Domain : WrappedProduced(p, v))
    /\ \A v \in Domain : SF_vars(\E p \in Wrappers : WrappedProduced(p, v))

----------------------------------------------------------------------------
(* random, randRange : random.ts 16-51.  A number read from LEN bytes does *)
(* not fit a machine integer of the checker, so it is kept as its bytes,   *)
(* most significant first, and divided digit by digit.  The quotient by    *)
(* MAX is a fraction: [q, r, den] stands for q + r / den.                  *)

MaxArg == 2         \* randRange arguments are in -MaxArg..MaxArg
MaxLen == 3         \* choose is given arrays of 1..MaxLen elements

\* values a byte of crypto.randomBytes takes in the model
ByteVals == {0, 128, 255}

\* const LEN = 6
LEN == 6

\* 1 << n in JavaScript: the shift count is taken modulo 32, the result is an int32
ShiftLeftOne(n) == IF n % 32 = 31 THEN -2147483647 - 1 ELSE 2^(n % 32)

\* const MAX = 1 << (4 * LEN)
MAX == ShiftLeftOne(4 * LEN)

\* await bytes(LEN): any LEN bytes
Blocks == [1..LEN -> ByteVals]

\* the hexadecimal digits of a block of bytes, most significant first
Nibbles(b) ==
    [i \in 1..(2 * Len(b)) |->
        IF i % 2 = 1 THEN b[(i + 1) \div 2] \div 16 ELSE b[i \div 2] % 16]

\* long division by m of the number written by the digits ds, from digit i on,
\* q and r being the quotient and remainder of the digits before i
RECURSIVE LongDiv(_, _, _, _, _)
LongDiv(ds, m, i, q, r) ==
    IF i > Len(ds) THEN [q |-> q, r |-> r]
    ELSE LET cur == r * 16 + ds[i]
         IN  LongDiv(ds, m, i + 1, q * 16 + (cur \div m), cur % m)

\* b.readUIntBE(0, LEN) / MAX
RandomOf(b) ==
    LET d == LongDiv(Nibbles(b), MAX, 1, 0, 0)
    IN  [q |-> d.q, r |-> d.r, den |-> MAX]

\* Math.floor(start + value * diff), value = q + r / den
FloorAffine(start, v, diff) == start + v.q * diff + ((v.r * diff) \div v.den)

\* const [start, diff] = (max === undefined) ? [0, min] : [min, max]
RandRangeArgs(args) == IF Len(args) = 1 THEN <<0, args[1]>> ELSE <<args[1], args[2]>>

\* randRange(min, max?): Math.floor(start + (await random()) * diff)
RandRangeOf(args, v) == FloorAffine(RandRangeArgs(args)[1], v, RandRangeArgs(args)[2])

\* the result of reading an array element: values[i] is undefined outside the array
Defined(x) == [defined |-> TRUE, elem |-> x]
Undefined == [defined |-> FALSE]

\* values[i], i counted from 0
ArrayAt(values, i) ==
    IF i \in 0..(Len(values) - 1) THEN Defined(values[i + 1]) ELSE Undefined

\* choose(values): const i = await randRange(values.length); return values[i]
ChooseOf(values, v) == ArrayAt(values, RandRangeOf(<<Len(values)>>, v))

\* the non-empty arrays given to choose in the model
Elems == {"x", "y"}
Arrays == UNION {[1..n -> Elems] : n \in 1..MaxLen}

InitRandom ==
    /\ value = "none"
    /\ contents = {}
    /\ locked = NewLock.locked
    /\ waiting = NewLock.waiting
    /\ inner = NewLock.inner
    /\ promise = NewLock.promise
    /\ pc = <<>>
    /\ cand = <<>>
    /\ ret = <<>>
    /\ arrival = <<>>
    /\ grants = <<>>
    /\ woken = {}
    /\ misuse = 0
    /\ last = [op |-> "new", call |-> 0, out |-> Return("none")]
    /\ draw = NoDraw

\* what the call of draw resolves to once the bytes b have been read
ResultOf(d, b) ==
    IF d.fn = "random" THEN RandomOf(b)
    ELSE IF d.fn = "randRange" THEN RandRangeOf(d.args, RandomOf(b))
    ELSE ChooseOf(d.args[1], RandomOf(b))

Idle == draw = NoDraw

\* random() is called: it awaits bytes(LEN)
CallRandom ==
    /\ Idle
    /\ draw' = [fn |-> "random", args |-> <<>>, stage |-> "bytes"]
    /\ UNCHANGED <<value, contents, locked, waiting, inner, promise, pc, cand, ret, history>>

\* randRange(max) is called: it awaits random(), which awaits bytes(LEN)
CallRandRange1(max) ==
    /\ Idle
    /\ draw' = [fn |-> "randRange", args |-> <<max>>, stage |-> "bytes"]
    /\ UNCHANGED <<value, contents, locked, waiting, inner, promise, pc, cand, ret, history>>

\* randRange(min, max) is called
CallRandRange2(min, max) ==
    /\ Idle
    /\ draw' = [fn |-> "randRange", args |-> <<min, max>>, stage |-> "bytes"]
    /\ UNCHANGED <<value, contents, locked, waiting, inner, promise, pc, cand, ret, history>>

\* choose(values) is called: it awaits randRange(values.length)
CallChoose(values) ==
    /\ Idle
    /\ draw' = [fn |-> "choose", args |-> <<values>>, stage |-> "bytes"]
    /\ UNCHANGED <<value, contents, locked, waiting, inner, promise, pc, cand, ret, history>>

\* bytes(LEN) rejects: the pending call rejects with the same error, nothing catches it
BytesFail ==
    /\ draw.stage = "bytes"
    /\ draw' = [fn |-> draw.fn, args |-> draw.args, stage |-> "failed"]
    /\ UNCHANGED <<value, contents, locked, waiting, inner, promise, pc, cand, ret, history>>

\* bytes(LEN) resolves with b: the pending call computes its result
BytesRead(b) ==
    /\ draw.stage = "bytes"
    /\ draw' = [fn |-> draw.fn, args |-> draw.args, stage |-> "done",
                b |-> b, result |-> ResultOf(draw, b)]
    /\ UNCHANGED <<value, contents, locked, waiting, inner, promise, pc, cand, ret, history>>

\* the caller has taken the result; the functions keep no state between calls
Settled ==
    /\ draw.stage \in {"done", "failed"}
    /\ draw' = NoDraw
    /\ UNCHANGED <<value, contents, locked, waiting, inner, promise, pc, cand, ret, history>>

NextRandom ==
    \/ CallRandom
    \/ \E max \in -MaxArg..MaxArg : CallRandRange1(max)
    \/ \E min \in -MaxArg..MaxArg, max \in -MaxArg..MaxArg : CallRandRange2(min, max)
    \/ \E values \in Arrays : CallChoose(values)
    \/ \E b \in Blocks : BytesRead(b)
    \/ BytesFail
    \/ Settled

SpecRandom == InitRandom /\ [][NextRandom]_vars

----------------------------------------------------------------------------
(* generatePassword(amount) : auth.ts 220-233.  rand = unique(randRange,   *)
(* wordList.length); amount calls of rand() are started at once, and the   *)
(* words at the indices they return are read when all have returned.       *)

MaxWords == 3       \* the word list has 1..MaxWords words

\* the blocks bytes(LEN) yields to the randRange calls of generatePassword
IndexBlocks == {b \in Blocks : b[1] = 0 /\ b[2] = 0}

\* the values randRange(wordList.length) returns for these blocks
IndexTable ==
    [L \in 1..MaxWords |-> {RandRangeOf(<<L>>, RandomOf(b)) : b \in IndexBlocks}]

\* the Words of a document with length L: a word at each position 0..L-1
WordList(L) == [i \in 1..L |-> i]

\* const rand = unique(randRange, wordList.length);
\* const indices = new Array(amount).fill(undefined).map(() => rand())
GeneratePassword(amount, L) ==
    /\ amount <= L
    /\ Idle
    /\ \A p \in Wrappers : pc[p] = "start"
    /\ draw' = [fn |-> "generatePassword", args |-> <<amount, L>>, stage |-> "indices"]
    /\ SetLock(NewLock)
    /\ contents' = {}
    /\ pc' = [p \in Wrappers |-> IF p <= amount THEN "func" ELSE "start"]
    /\ UNCHANGED <<value, cand, ret, history>>

\* the randRange(wordList.length) of call p resolves with v
IndexProduced(p, v) ==
    /\ draw.stage = "indices"
    /\ v \in IndexTable[draw.args[2]]
    /\ WrappedProduced(p, v)

\* the randRange(wordList.length) of call p rejects
IndexFailed(p) ==
    /\ draw.stage = "indices"
    /\ WrappedFailed(p)

\* call p resumes with the Locked of the Set of indices
IndexLocked(p) ==
    /\ draw.stage = "indices"
    /\ WrappedLocked(p)

\* (await Promise.all(indices)).map(i => wordList[i] as string)
WordsRead ==
    /\ draw.stage = "indices"
    /\ \A p \in 1..draw.args[1] : pc[p] = "done"
    /\ draw' = [fn |-> draw.fn, args |-> draw.args, stage |-> "done",
                words |-> [p \in 1..draw.args[1] |->
                             ArrayAt(WordList(draw.args[2]), ret[p][1])]]
    /\ UNCHANGED <<value, contents, locked, waiting, inner, promise, pc, cand, ret, history>>

NextPassword ==
    \/ \E L \in 1..MaxWords, amount \in 1..NumUnique : GeneratePassword(amount, L)
    \/ \E p \in Wrappers, v \in UNION {IndexTable[L] : L \in 1..MaxWords} :
          IndexProduced(p, v)
    \/ \E p \in Wrappers : IndexFailed(p)
    \/ \E p \in Wrappers : IndexLocked(p)
    \/ WordsRead

SpecPassword == InitUnique /\ [][NextPassword]_vars

----------------------------------------------------------------------------
(* Properties of the Lock *)

\* the Locked objects that were constructed and not yet unlocked
Live == {c \in DOMAIN inner : ~inner[c].unlocked}
Released == {c \in DOMAIN inner : inner[c].unlocked}

\* a waiter that Lock.unlock() handed the lock to and that has not unlocked yet
HandOff == woken \cap Live

\* C1: mutual exclusion - at every instant at most one Locked that was
\* constructed and not yet unlocked exists, whatever the callers do.
MutualExclusion == Cardinality(Live) <= 1

\* C1 witness: one caller holds the lock after another released it, and
\* two more wait for it.
MutualExclusionWitness ==
    /\ Cardinality(Live) = 1
    /\ Released # {}
    /\ Len(waiting) >= 2

\* C2: FIFO - the Locked objects are constructed in the order of the lock()
\* calls, and the callers resume in that order.
FifoOrder ==
    /\ Len(grants) <= Len(arrival)
    /\ \A i \in 1..Len(grants) : grants[i] = arrival[i]
    /\ \A i \in 1..Len(arrival) :
         pc[arrival[i]] = "has" =>
           \A j \in 1..(i - 1) : pc[arrival[j]] = "has" /\ arrival[j] \in Released

\* C2 witness: three calls were queued behind the first, and successive
\* unlocks have woken all of them, the last one just now.
FifoOrderWitness ==
    /\ Len(grants) >= 4
    /\ Cardinality(woken) >= 3
    /\ last.op = "unlock"
    /\ ~last.out.threw

\* C6: unlock() on a Locked that is already unlocked throws and changes
\* nothing of the Lock: locked, the queue, every Locked and every promise stay.
DoubleUnlockInert ==
    [][\A c \in Calls :
         (last'.op = "unlock" /\ last'.call = c /\ c \in Released) =>
           /\ last'.out.threw
           /\ UNCHANGED <<locked, waiting, inner, promise, grants, woken>>]_vars

\* C6 witness: a second unlock() has just thrown while another caller holds
\* the lock and a third waits.
DoubleUnlockWitness ==
    /\ last.op = "unlock"
    /\ last.out.threw
    /\ \E d \in Live : d # last.call
    /\ waiting # <<>>

\* C7: reading value gives the protected value while the Locked is held and
\* throws once it is unlocked; a Locked becomes unlocked only by its own
\* unlock() and never becomes held again.
GuardOneShot ==
    /\ [](last.op = "value" =>
            last.out = IF last.call \in Released THEN Throw ELSE Return(value))
    /\ [][\A c \in Calls :
            /\ c \in Released => (c \in DOMAIN inner' /\ inner'[c].unlocked)
            /\ (c \in Live /\ c \notin Live') =>
                 (c \in DOMAIN inner' /\ last'.op = "unlock" /\ last'.call = c)]_vars

\* C7 witness: value has just thrown on an unlocked Locked while the Lock is
\* held by a later caller.
GuardOneShotWitness ==
    /\ last.op = "value"
    /\ last.out.threw
    /\ \E d \in Live : d # last.call

\* C8: no barging - while a woken waiter has not unlocked, locked is true,
\* and a lock() call made then goes to the back of the queue without
\* getting a Locked.
NoBarging ==
    /\ [](HandOff # {} => locked)
    /\ [][(HandOff # {} /\ last'.op = "lock") =>
            /\ waiting' = Append(waiting, last'.call)
            /\ promise'[last'.call] = "pending"
            /\ UNCHANGED <<locked, inner, grants>>]_vars

\* C8 witness: a lock() call has just been queued behind an older waiter
\* while the woken waiter has not yet resumed.
NoBargingWitness ==
    /\ last.op = "lock"
    /\ Len(waiting) >= 2
    /\ waiting[Len(waiting)] = last.call
    /\ \E c \in HandOff : pc[c] = "await"

\* C9: locked is false exactly when the queue is empty and no Locked is live.
LockedIffBusy == (~locked) <=> (waiting = <<>> /\ Live = {})

\* C9 witness: the Lock is unlocked again after a hand-off.
LockedIffBusyWitness ==
    /\ ~locked
    /\ woken # {}
    /\ Len(grants) >= 2

----------------------------------------------------------------------------
\* C15: frame effect of a successful release - with waiters it removes exactly
\* the head of the queue, constructs a fresh Locked for that one call only,
\* keeps locked true and the order of the others; with no waiter it sets
\* locked to false; every live Locked gives the one protected value.
ReleaseFrame ==
    /\ [](\A c \in Live : LockedValue(inner[c]) = Return(value))
    /\ [][/\ value' = value
          /\ \A c \in Calls :
               (last'.op = "unlock" /\ last'.call = c /\ ~last'.out.threw) =>
                 /\ c \in Live /\ locked
                 /\ IF waiting # <<>>
                    THEN /\ waiting' = Tail(waiting)
                         /\ locked'
                         /\ Head(waiting) \notin DOMAIN inner
                         /\ inner' = (Head(waiting) :> NewLocked(value)) @@
                                        [inner EXCEPT ![c] = [unlocked |-> TRUE]]
                         /\ promise' = [promise EXCEPT ![Head(waiting)] = "fulfilled"]
                         /\ grants' = Append(grants, Head(waiting))
                    ELSE /\ waiting' = <<>>
                         /\ ~locked'
                         /\ inner' = [inner EXCEPT ![c] = [unlocked |-> TRUE]]
                         /\ promise' = promise
                         /\ grants' = grants]_vars

ReleaseFrameWitness ==
    /\ last.op = "unlock" /\ ~last.out.threw
    /\ Len(waiting) >= 2
    /\ \E c \in HandOff : c # last.call /\ pc[c] = "await"

\* C17: no lost wake-up - when every caller given a Locked releases it, every
\* lock() call is granted at some time; a waiting call is in the queue exactly
\* once until it is woken, and no call is granted twice.
NoLostWakeup ==
    /\ [](\A i, j \in 1..Len(waiting) : i # j => waiting[i] # waiting[j])
    /\ [](\A c \in DOMAIN promise :
            promise[c] = "pending" <=> \E i \in 1..Len(waiting) : waiting[i] = c)
    /\ [](\A i, j \in 1..Len(grants) : i # j => grants[i] # grants[j])
    /\ \A c \in Calls : (pc[c] = "await") ~> (pc[c] = "has" /\ c \in DOMAIN inner)

NoLostWakeupWitness ==
    /\ Len(arrival) = MaxCalls
    /\ \A c \in Calls : pc[c] = "has" /\ c \in Released
    /\ Cardinality(woken) >= 2
    /\ ~locked

(* Properties of the counter, of unique() and of the random functions *)

\* C10: no lost updates - the count of K is the number of increment() calls
\* that returned, none of them fails, and when all NumIncrements calls have
\* returned the count is NumIncrements.
NoLostUpdates ==
    /\ MapGet(contents, K) = Cardinality({p \in Incrementers : pc[p] = "done"})
    /\ \A p \in Incrementers : pc[p] # "threw"
    /\ (\A p \in Incrementers : pc[p] = "done") => MapGet(contents, K) = NumIncrements

\* C10 witness: all calls have returned, and all but the first had to wait
\* in the queue of the Lock.
NoLostUpdatesWitness ==
    /\ \A p \in Incrementers : pc[p] = "done"
    /\ Cardinality(woken) = NumIncrements - 1
    /\ MapGet(contents, K) = NumIncrements

\* C3: uniqueness - no two calls of one wrapped() return equal values.
UniqueReturns ==
    \A p, q \in Wrappers :
        (p # q /\ ret[p] # NoValue /\ ret[q] # NoValue) => ret[p] # ret[q]

\* C3 witness: two calls have returned while a third, whose candidate was
\* rejected as already seen, is asking func again.
UniqueReturnsWitness ==
    /\ Cardinality({p \in Wrappers : pc[p] = "done"}) >= 2
    /\ \E p \in Wrappers : pc[p] = "func" /\ cand[p] # NoValue /\ cand[p][1] \in contents

\* C4: random() is in [0, 1) - the number read from the LEN bytes is
\* smaller than the divisor MAX, so the whole part of the quotient is 0.
RandomInUnitInterval ==
    (draw.fn = "random" /\ draw.stage = "done") =>
        (draw.result.q = 0 /\ draw.result.r >= 0)

\* C5: range correctness - randRange(min, max) with min < max is in
\* min..max-1, and randRange(max) with max > 0 is in 0..max-1.
RangeCorrect ==
    (draw.fn = "randRange" /\ draw.stage = "done") =>
        /\ (Len(draw.args) = 2 /\ draw.args[1] < draw.args[2]) =>
              (draw.args[1] <= draw.result /\ draw.result < draw.args[2])
        /\ (Len(draw.args) = 1 /\ draw.args[1] > 0) =>
              (0 <= draw.result /\ draw.result < draw.args[1])

\* every value func can yield is in the Set
Exhausted == Domain \subseteq contents
InFlight == {p \in Wrappers : pc[p] \in {"func", "await"}}
Returned == {p \in Wrappers : pc[p] = "done"}
Retrying == {p \in Wrappers : pc[p] = "func" /\ cand[p] # NoValue}
InQueue(p) == \E i \in 1..Len(waiting) : waiting[i] = p

\* C12: non-termination on domain exhaustion - once every value of the domain
\* is in the Set no call returns any more; a call in flight takes the Lock,
\* releases it and goes back to func, again and again.
NeverReturnsWhenExhausted ==
    /\ [][Exhausted => (ret' = ret /\ Returned' = Returned /\ Exhausted')]_vars
    /\ [][\A p \in Wrappers :
            (Exhausted /\ pc[p] = "await" /\ pc'[p] # "await") =>
                (p \in Live /\ inner'[p].unlocked /\ pc'[p] = "func")]_vars
    /\ \A p \in Wrappers :
         /\ (Exhausted /\ pc[p] = "func") ~> (pc[p] = "await" /\ p \in Live)
         /\ (Exhausted /\ pc[p] = "await") ~> (pc[p] = "func" /\ p \in Released)

NeverReturnsWitness ==
    /\ Exhausted
    /\ \E p \in Retrying : p \in Released /\ cand[p][1] \in contents

\* C13: error propagation - when func rejects, the call rejects at once and
\* for good, the Set and the Lock are left as they were, and the call neither
\* holds a Locked nor waits for one, so the Lock stays usable by the others.
FailureSurfaces ==
    /\ [](\A p \in Wrappers :
            pc[p] = "threw" => (p \notin Live /\ ~InQueue(p) /\ ret[p] = NoValue))
    /\ [][\A p \in Wrappers :
            /\ (pc[p] # "threw" /\ pc'[p] = "threw") =>
                  /\ pc[p] = "func"
                  /\ UNCHANGED <<contents, locked, waiting, inner, promise, ret>>
            /\ pc[p] = "threw" => pc'[p] = "threw"]_vars

FailureSurfacesWitness ==
    \E p, q \in Wrappers :
        /\ pc[p] = "threw" /\ cand[p] # NoValue /\ p \in Released
        /\ pc[q] = "await" /\ q \in Live
        /\ Returned # {}

\* C16: the producer runs outside the Lock - a call whose func is pending
\* neither holds a Locked nor waits for one, and several calls can have
\* their func pending at once.
ProducerUnsynchronized ==
    \A p \in Wrappers :
        pc[p] = "func" =>
            /\ p \notin Live
            /\ ~InQueue(p)
            /\ p \in DOMAIN promise => promise[p] = "fulfilled"

ProducerUnsynchronizedWitness ==
    /\ Cardinality({p \in Wrappers : pc[p] = "func"}) >= 2
    /\ Retrying # {}
    /\ Returned # {}

\* C18: the Set is exactly the set of values returned so far - a value goes
\* in only as its call returns it, a rejected candidate changes nothing, and
\* nothing is ever taken out.
SetIsReturned ==
    /\ [](contents = {ret[p][1] : p \in Returned})
    /\ [](\A p \in Wrappers : ret[p] # NoValue <=> p \in Returned)
    /\ [][/\ contents \subseteq contents'
          /\ \A p \in Wrappers :
               /\ (pc[p] = "await" /\ pc'[p] = "func") =>
                     (cand[p][1] \in contents /\ contents' = contents)
               /\ (pc[p] = "await" /\ pc'[p] = "done") =>
                     (cand[p][1] \notin contents
                      /\ contents' = contents \cup {cand[p][1]}
                      /\ ret'[p] = cand[p])
          /\ (contents' # contents) => Returned' # Returned]_vars

SetIsReturnedWitness ==
    /\ Cardinality(contents) = 1
    /\ \E q \in Retrying : cand[q][1] \in contents
    /\ \E r \in Live : pc[r] = "await" /\ cand[r][1] \notin contents

\* C19: no lock leak - a call holds a Locked only between values.lock() and
\* the unlock() of the same pass, which comes on the returning path and on
\* the retrying one; when no call holds one the Lock is unlocked, queue empty.
NoLockLeak ==
    /\ [](\A p \in Live : pc[p] = "await")
    /\ [](Live = {} => (~locked /\ waiting = <<>>))
    /\ [][\A p \in Wrappers :
            (pc[p] = "await" /\ pc'[p] # "await") =>
                (p \in Live /\ inner'[p].unlocked)]_vars

NoLockLeakWitness ==
    /\ \A p \in Wrappers : pc[p] # "await"
    /\ ~locked
    /\ Cardinality(Returned) = 1
    /\ Retrying # {}

\* C20: termination when the domain suffices - with a fair producer a call in
\* flight returns unless the whole domain has been returned already, which
\* takes DomainSize calls that returned: when no more calls are made than
\* the domain has values, every one of them returns.
Terminates ==
    /\ [](Exhausted => Cardinality(Returned) = DomainSize)
    /\ \A p \in Wrappers : (p \in InFlight) ~> (p \in Returned \/ Exhausted)

TerminatesWitness ==
    /\ Cardinality(Returned) = DomainSize
    /\ Cardinality({q \in Wrappers : pc[q] # "start"}) = DomainSize
    /\ Exhausted

\* C11: choose correctness - choose(values) on a non-empty array returns an
\* element of values; choose([x]) returns x.
ChooseCorrect ==
    (draw.fn = "choose" /\ draw.stage = "done") =>
        /\ draw.result.defined
        /\ \E i \in 1..Len(draw.args[1]) : draw.result.elem = draw.args[1][i]
        /\ Len(draw.args[1]) = 1 => draw.result = Defined(draw.args[1][1])

\* C14: randRange(min, max) is floor(min + r * (max - min)) and randRange(max)
\* is floor(r * max), r being the value random() gave for the bytes read.
RandRangeFormula ==
    (draw.fn = "randRange" /\ draw.stage = "done") =>
        draw.result =
            IF Len(draw.args) = 2
            THEN FloorAffine(draw.args[1], RandomOf(draw.b), draw.args[2] - draw.args[1])
            ELSE FloorAffine(0, RandomOf(draw.b), draw.args[1])

\* C21: in generatePassword(amount) with a word list of length L >= amount the
\* indices returned by unique(randRange, L) are pairwise distinct and each is
\* in 0..L-1, so every word read is defined.
PasswordIndices ==
    draw.fn = "generatePassword" =>
        /\ \A p, q \in 1..draw.args[1] :
              (p # q /\ ret[p] # NoValue /\ ret[q] # NoValue) => ret[p] # ret[q]
        /\ \A p \in 1..draw.args[1] :
              ret[p] # NoValue => ret[p][1] \in 0..(draw.args[2] - 1)
        /\ draw.stage = "done" => \A p \in 1..draw.args[1] : draw.words[p].defined

====
